---- MODULE Spec2Model ----
(***************************************************************************)
(* VoiceCoPilot web client: the transcript store (zustand appStore), the   *)
(* useLiveStreaming hook (transport callbacks, browser recognizer buffer,  *)
(* suggestion effect, start/stop) and the pieces of AudioWebSocket and     *)
(* useAudioCapture the hook drives.                                        *)
(*                                                                         *)
(* A text is a sequence of one-character strings, so that trim(), length   *)
(* and the " " join are computed as the code computes them.  Time is in    *)
(* milliseconds and advances in steps of TickMs.                           *)
(***************************************************************************)
EXTENDS Integers, Sequences, FiniteSets, TLC

VARIABLES
    transcript,             \* appStore.transcript: Seq of [role, text, isDraft]
    now,                    \* Date.now(), ms
    \* useLiveStreaming refs read by the transport and recognizer callbacks
    singleSpeakerMode,      \* appStore.singleSpeakerMode
    lastTranscriptRef,      \* [user, other] -> last accepted trimmed text
    browserTranscriptRef,   \* buffered final text of the browser recognizer
    browserFlushTimerRef,   \* NoTimer or [at |-> ms the flush timer was set]
    clientTranscripts,      \* client_transcript texts sent, in order
    \* the suggestion pipeline (appStore, projectStore and the hook's refs)
    suggestions,            \* appStore.suggestions: <<>> or <<id of the request answered>>
    isLoadingSuggestions,   \* appStore.isLoadingSuggestions
    contextText,            \* projectStore.contextText (not edited while the model runs)
    debounceRef,            \* NoTimer or the pending debounce timer with its closure:
                            \* [at, transcript, context, ssm]
    hasCleanup,             \* whether the last run of the effect returned a cleanup
    inflight,               \* generateSuggestions calls not yet settled:
                            \* set of [id, key, aborted, superseded]
    abortRef,               \* abortRef.current: a request id, 0 for null
    suggestionCacheRef,     \* NoCache or [key, suggestions, at]
    nextReq,                \* the id the next AbortController gets
    \* history variables (read by the properties only)
    op,                     \* the last handler that ran: [name, role]
    utt,                    \* per role, the utterance in progress: "idle", "open"
                            \* (interim events only since it began) or "mixed"
    finalAt,                \* per role, when its last final event was accepted (-1: none)
    echoSeen,               \* transcriptions of EchoPhrase on the user channel since it
                            \* was last forwarded (-1: not forwarded)
    lastCall,               \* the last network call to the suggestion service: [key, at]
    \* the session: appStore flags, the hook's refs and AudioWebSocket
    isRecording,            \* appStore.isRecording
    isConnected,            \* appStore.isConnected
    sttUserMode,            \* appStore.sttUserMode
    wsRef,                  \* wsRef.current: a socket id, 0 for null
    sockets,                \* the AudioWebSocket objects created, by id:
                            \* [state, streamConfigs, sent, audio]
    starts,                 \* startStreaming calls at `await startCapture()`: the id
                            \* of the socket each call created
    closure,                \* per startStreaming call, the values its render closed
                            \* over: [mode, enableOther]
    stops,                  \* stopStreaming calls at `await stopCapture()`
    recognizers,            \* BrowserSpeechService objects started and not stopped
    browserSpeechRef,       \* browserSpeechRef.current: a recognizer id, 0 for null
    \* useAudioCapture: what is live, and the refs that lead to it.  A stream,
    \* processor or listener carries the id of the startCapture call that made it.
    liveStreams,            \* microphone streams opened and not stopped
    micStreamRef,           \* micStreamRef.current / audioContextRef.current, 0 for null
    liveProcessors,         \* microphone processors connected (delivering frames)
    processorRef,           \* processorRef.current, 0 for null
    micConfigSent,          \* micConfigSent.current
    liveDisplayStreams,     \* display streams opened and not stopped
    displayStreamRef,       \* displayStreamRef.current / displayAudioContextRef.current
    liveDisplayProcessors,  \* display processors connected
    displayProcessorRef,    \* displayProcessorRef.current
    displayConfigSent,      \* displayConfigSent.current
    extListeners,           \* extension message listeners installed on window
    extensionListenerRef,   \* extensionListenerRef.current
    extensionConfigSent,    \* extensionConfigSent.current
    extensionAvailable,     \* extensionAvailableRef.current
    captureError,           \* useAudioCapture error: "none" or the failure's kind
    emitted,                \* history: <<call id, channel>> for every onConfig call
    \* what runs beside the hook
    boot,                   \* api.ts runtime config: [loaded, base, secure, calls, fetches]
    speech,                 \* one BrowserSpeechService object and its recognition
    offscreen               \* the extension's capture: its three globals and what is live

hookVars == <<singleSpeakerMode, lastTranscriptRef, browserTranscriptRef,
              browserFlushTimerRef, clientTranscripts>>
suggVars == <<suggestions, isLoadingSuggestions, contextText, debounceRef, hasCleanup,
              inflight, abortRef, suggestionCacheRef, nextReq>>
histVars == <<op, utt, finalAt, echoSeen, lastCall>>
capVars == <<liveStreams, micStreamRef, liveProcessors, processorRef, micConfigSent,
             liveDisplayStreams, displayStreamRef, liveDisplayProcessors,
             displayProcessorRef, displayConfigSent, extListeners, extensionListenerRef,
             extensionConfigSent, extensionAvailable, captureError, emitted>>
platVars == <<boot, speech, offscreen>>
coreVars == <<isRecording, isConnected, sttUserMode, wsRef, sockets, starts, closure, stops,
              recognizers, browserSpeechRef, capVars>>
sessVars == <<coreVars, platVars>>
vars == <<transcript, now, hookVars, suggVars, histVars, sessVars>>

\* ------------------------------------------------------------------ bounds
MaxLen == 3
HookMaxLen == 2
SuggMaxLen == 2
MaxRequests == 2
MaxTextLen == 3
MaxBufLen == 9
MaxSent == 1
MaxTimeMs == 22500
TickMs == 7500

NoTimer == [at |-> -1]
NoCache == [at |-> -1]
NoCall == [at |-> -1]
Op(name, role) == [name |-> name, role |-> role]

\* ------------------------------------------------------------------ texts
Roles == {"user", "other"}

RECURSIVE TrimLeft(_)
TrimLeft(s) ==
    IF s = <<>> THEN <<>>
    ELSE IF Head(s) = " " THEN TrimLeft(Tail(s)) ELSE s

RECURSIVE TrimRight(_)
TrimRight(s) ==
    IF s = <<>> THEN <<>>
    ELSE IF s[Len(s)] = " " THEN TrimRight(SubSeq(s, 1, Len(s) - 1)) ELSE s

\* String.prototype.trim
Trim(s) == TrimRight(TrimLeft(s))

\* The recognized texts the store is driven with: two words, and for the
\* pause-merge append also an empty and a whitespace-only text.
Words == { <<"a">>, <<"b">> }
StoreTexts == Words \cup { <<>>, <<" ">> }

\* ------------------------------------------------------------------ appStore
Message(role, text, isDraft) == [role |-> role, text |-> text, isDraft |-> isDraft]

Last(t) == t[Len(t)]

addMessage(t, role, text) == Append(t, Message(role, text, FALSE))

\* A draft update that rewrites the last entry of the role, draft or not.
updateLastOrAppend(t, role, text) ==
    IF Len(t) > 0 /\ Last(t).role = role
    THEN [t EXCEPT ![Len(t)].text = text]
    ELSE Append(t, Message(role, text, TRUE))

updateOrAppendDraft(t, role, text) ==
    IF Len(t) > 0 /\ Last(t).role = role /\ Last(t).isDraft
    THEN [t EXCEPT ![Len(t)].text = text]
    ELSE Append(t, Message(role, text, TRUE))

finalizeDraft(t, role) ==
    IF Len(t) > 0 /\ Last(t).role = role /\ Last(t).isDraft
    THEN [t EXCEPT ![Len(t)].isDraft = FALSE]
    ELSE t

appendToLastMessage(t, role, text) ==
    IF Len(t) > 0 /\ Last(t).role = role /\ ~Last(t).isDraft
    THEN [t EXCEPT ![Len(t)].text = Trim(Last(t).text \o <<" ">> \o text)]
    ELSE Append(t, Message(role, text, FALSE))

clearTranscript(t) == <<>>

\* ------------------------------------------------------------------ measures
DraftIdx(t, role) == { i \in 1..Len(t) : t[i].role = role /\ t[i].isDraft }
FinalIdx(t, role) == { i \in 1..Len(t) : t[i].role = role /\ ~t[i].isDraft }

\* ------------------------------------------------------------------ store calls
\* The store driven directly: any call, any role, any order.  An interim
\* recognition event is a call of updateOrAppendDraft, a final one a call of
\* finalizeDraft.

\* What a bare store call leaves alone.
StoreFrame == UNCHANGED <<now, hookVars, suggVars, sessVars, finalAt, echoSeen, lastCall>>

\* A call on `role` other than an interim event, in the middle of an utterance.
Mix(u, role) == [u EXCEPT ![role] = IF @ = "idle" THEN "idle" ELSE "mixed"]

StoreAddMessage ==
    \E role \in Roles, text \in Words :
        /\ Len(transcript) < MaxLen
        /\ transcript' = addMessage(transcript, role, text)
        /\ op' = Op("addMessage", role)
        /\ utt' = Mix(utt, role)
        /\ StoreFrame

StoreUpdateOrAppendDraft ==
    \E role \in Roles, text \in Words :
        /\ Len(updateOrAppendDraft(transcript, role, text)) <= MaxLen
        /\ transcript' = updateOrAppendDraft(transcript, role, text)
        /\ op' = Op("updateOrAppendDraft", role)
        /\ utt' = [utt EXCEPT ![role] = IF @ = "idle" THEN "open" ELSE @]
        /\ StoreFrame

StoreFinalizeDraft ==
    \E role \in Roles :
        /\ transcript' = finalizeDraft(transcript, role)
        /\ op' = Op("finalizeDraft", role)
        /\ utt' = [utt EXCEPT ![role] = "idle"]
        /\ StoreFrame

StoreAppendToLastMessage ==
    \E role \in Roles, text \in StoreTexts :
        /\ Len(appendToLastMessage(transcript, role, text)) <= MaxLen
        /\ \A i \in 1..Len(appendToLastMessage(transcript, role, text)) :
               Len(appendToLastMessage(transcript, role, text)[i].text) <= MaxTextLen
        /\ transcript' = appendToLastMessage(transcript, role, text)
        /\ op' = Op("appendToLastMessage", role)
        /\ utt' = Mix(utt, role)
        /\ StoreFrame

StoreClearTranscript ==
    /\ transcript' = clearTranscript(transcript)
    /\ op' = Op("clearTranscript", "none")
    /\ utt' = [r \in Roles |-> "idle"]
    /\ StoreFrame

\* The hook's refs and the store's other fields after construction.
RefsInit ==
    /\ now = 0
    /\ lastTranscriptRef = [r \in Roles |-> <<>>]
    /\ browserTranscriptRef = <<>>
    /\ browserFlushTimerRef = NoTimer
    /\ clientTranscripts = <<>>
    /\ op = Op("init", "none")
    /\ utt = [r \in Roles |-> "idle"]
    /\ finalAt = [r \in Roles |-> -1]
    /\ echoSeen = -1
    /\ suggestions = <<>>
    /\ contextText = ""
    /\ inflight = {}
    /\ abortRef = 0
    /\ suggestionCacheRef = NoCache
    /\ nextReq = 1
    /\ lastCall = NoCall

\* The store and the hook after construction: transcript empty, two speakers,
\* the suggestion effect has returned at its first guard.
AppInit ==
    /\ transcript = <<>>
    /\ singleSpeakerMode = FALSE
    /\ isLoadingSuggestions = FALSE
    /\ debounceRef = NoTimer
    /\ hasCleanup = FALSE
    /\ RefsInit

\* No session: nothing started, nothing captured.
SessionIdle ==
    /\ isRecording = FALSE
    /\ isConnected = FALSE
    /\ sttUserMode = "browser"
    /\ wsRef = 0
    /\ sockets = <<>>
    /\ starts = {}
    /\ closure = <<>>
    /\ stops = 0
    /\ recognizers = {}
    /\ browserSpeechRef = 0
    /\ liveStreams = {}
    /\ micStreamRef = 0
    /\ liveProcessors = {}
    /\ processorRef = 0
    /\ micConfigSent = FALSE
    /\ liveDisplayStreams = {}
    /\ displayStreamRef = 0
    /\ liveDisplayProcessors = {}
    /\ displayProcessorRef = 0
    /\ displayConfigSent = FALSE
    /\ extListeners = {}
    /\ extensionListenerRef = 0
    /\ extensionConfigSent = FALSE
    /\ extensionAvailable = FALSE
    /\ captureError = "none"
    /\ emitted = {}

\* ------------------------------------------------------------------ beside the hook
\* The compiled-in base URL (DEFAULT_API_URL).
DefaultBase == [kind |-> "default", https |-> FALSE, slash |-> FALSE]

MaxBootCalls == 2
BootCalls == 1..MaxBootCalls

\* _apiBaseUrl = DEFAULT_API_BASE_URL, _configLoaded = false, on a page served
\* over https or not; no call of ensureConfigLoaded made yet.
BootFresh(secure) ==
    [loaded |-> FALSE, base |-> DefaultBase, secure |-> secure,
     calls |-> [c \in BootCalls |-> "idle"], fetches |-> 0]

\* new BrowserSpeechService() where the Web Speech API exists.
SpeechNew ==
    [isListening |-> FALSE, callbacks |-> FALSE, restartTimer |-> FALSE, langTimers |-> 0,
     recognition |-> "idle", lang |-> "ru", stopped |-> FALSE]

\* The extension's capture globals: audioContext, processor, mediaStream null.
OffscreenIdle ==
    [audioContext |-> 0, processor |-> 0, mediaStream |-> 0, pending |-> 0, closing |-> 0,
     streams |-> {}, processors |-> {}, contexts |-> {}, begun |-> 0, last |-> "none"]

\* main.tsx has rendered the app after ensureConfigLoaded() resolved with no
\* /config.json served; no recognizer of this kind and no extension capture.
PlatformIdle ==
    /\ boot = [BootFresh(FALSE) EXCEPT !.loaded = TRUE, !.calls[1] = "returned", !.fetches = 1]
    /\ speech = SpeechNew
    /\ offscreen = OffscreenIdle

\* What a step beside the hook leaves alone.
PlatFrame == UNCHANGED <<transcript, now, hookVars, suggVars, utt, finalAt, echoSeen,
                         lastCall, coreVars>>

Init == AppInit /\ SessionIdle /\ PlatformIdle

\* A session in browser mode after startStreaming has resumed on a shared
\* display with audio and its socket has opened.
SessionLive ==
    /\ isRecording = TRUE
    /\ isConnected = TRUE
    /\ sttUserMode = "browser"
    /\ wsRef = 1
    /\ sockets = << [state |-> "open", streamConfigs |-> {"user", "other"},
                     sent |-> [r \in {"user", "other"} |-> 1], audio |-> {},
                     bare |-> {}] >>
    /\ starts = {}
    /\ closure = << [mode |-> "browser", enableOther |-> TRUE] >>
    /\ stops = 0
    /\ recognizers = {1}
    /\ browserSpeechRef = 1
    /\ liveStreams = {1}
    /\ micStreamRef = 1
    /\ liveProcessors = {1}
    /\ processorRef = 1
    /\ micConfigSent = TRUE
    /\ liveDisplayStreams = {1}
    /\ displayStreamRef = 1
    /\ liveDisplayProcessors = {1}
    /\ displayProcessorRef = 1
    /\ displayConfigSent = TRUE
    /\ extListeners = {}
    /\ extensionListenerRef = 0
    /\ extensionConfigSent = FALSE
    /\ extensionAvailable = FALSE
    /\ captureError = "none"
    /\ emitted = { <<1, "user">>, <<1, "other">> }

StoreNext ==
    \/ StoreAddMessage
    \/ StoreUpdateOrAppendDraft
    \/ StoreFinalizeDraft
    \/ StoreAppendToLastMessage
    \/ StoreClearTranscript

StoreSpec == Init /\ [][StoreNext]_vars

\* ------------------------------------------------------------------ hook callbacks
\* useLiveStreaming.ts: the callbacks of a started session.

BROWSER_STT_FLUSH_MS == 1100
BROWSER_STT_MIN_SEND_CHARS == 6

Rep(c, n) == [i \in 1..n |-> c]

\* A phrase long enough to be forwarded on its own, and a fragment that is not.
Phrase == Rep("p", 6)
Fragment == <<"h", "i">>
EchoPhrase == Phrase

\* Texts of the transcription messages the server sends.
ServerTexts == { Phrase, <<" ">> \o Phrase, Fragment, <<" ">> }
\* Texts of the browser recognizer's results.
RecognizerTexts == { Phrase, Fragment, <<" ">> }

\* What the transport and recognizer callbacks leave alone.
HookFrame == UNCHANGED <<suggVars, sessVars, lastCall>>

\* onTranscript: the role a speaker string maps to.
RoleOf(speaker) == IF speaker = "user" THEN "user" ELSE "other"

\* An onTranscript without the test of the trimmed text.
OnTranscriptAcceptsBlank(ssm, lastRef, speaker, text) ==
    /\ ~(ssm /\ speaker = "other")
    /\ lastRef[RoleOf(speaker)] # Trim(text)

\* onTranscript: whether the message is accepted (none of the early returns).
OnTranscriptAccepts(ssm, lastRef, speaker, text) ==
    /\ ~(ssm /\ speaker = "other")
    /\ Trim(text) # <<>>
    /\ lastRef[RoleOf(speaker)] # Trim(text)

\* ws.onmessage -> onTranscript(text, speaker)
OnTranscript ==
    \E speaker \in Roles, text \in ServerTexts :
        /\ op' = Op("onTranscript", RoleOf(speaker))
        /\ IF OnTranscriptAccepts(singleSpeakerMode, lastTranscriptRef, speaker, text)
           THEN /\ Len(transcript) < HookMaxLen
                /\ lastTranscriptRef' =
                       [lastTranscriptRef EXCEPT ![RoleOf(speaker)] = Trim(text)]
                /\ transcript' = addMessage(transcript, RoleOf(speaker), text)
                /\ finalAt' = [finalAt EXCEPT ![RoleOf(speaker)] = now]
           ELSE UNCHANGED <<lastTranscriptRef, transcript, finalAt>>
        /\ echoSeen' = IF speaker = "user" /\ text = EchoPhrase /\ echoSeen \in 0..1
                       THEN echoSeen + 1 ELSE echoSeen
        /\ UNCHANGED <<now, singleSpeakerMode, browserTranscriptRef,
                       browserFlushTimerRef, clientTranscripts, utt>>
        /\ HookFrame

\* A result handler that puts the new final text before the buffered ones.
BufferPrepends(buf, text, isFinal) ==
    IF Trim(text) = <<>> \/ ~isFinal THEN buf
    ELSE IF buf # <<>> THEN Trim(text) \o <<" ">> \o buf ELSE Trim(text)

\* browserSpeech.start({ onResult }): the buffer after a result.
BufferAfter(buf, text, isFinal) ==
    IF Trim(text) = <<>> \/ ~isFinal THEN buf
    ELSE IF buf # <<>> THEN buf \o <<" ">> \o Trim(text) ELSE Trim(text)

\* onResult(text, isFinal): buffers a final text and restarts the flush timer.
OnResult ==
    \E text \in RecognizerTexts, isFinal \in BOOLEAN :
        /\ recognizers # {}
        /\ Len(BufferAfter(browserTranscriptRef, text, isFinal)) <= MaxBufLen
        /\ op' = Op(IF isFinal THEN "onResultFinal" ELSE "onResultInterim", "user")
        /\ browserTranscriptRef' = BufferAfter(browserTranscriptRef, text, isFinal)
        /\ browserFlushTimerRef' =
               IF Trim(text) = <<>> \/ ~isFinal THEN browserFlushTimerRef
               ELSE [at |-> now]
        /\ UNCHANGED <<transcript, now, singleSpeakerMode, lastTranscriptRef,
                       clientTranscripts, utt, finalAt, echoSeen>>
        /\ HookFrame

\* The flush timer's callback, BROWSER_STT_FLUSH_MS after the last final result.
FlushTimer ==
    /\ browserFlushTimerRef # NoTimer
    /\ now >= browserFlushTimerRef.at + BROWSER_STT_FLUSH_MS
    /\ browserFlushTimerRef' = NoTimer
    /\ browserTranscriptRef' = <<>>
    /\ op' = Op("flush", "user")
    /\ IF Len(Trim(browserTranscriptRef)) >= BROWSER_STT_MIN_SEND_CHARS /\ wsRef # 0
       THEN /\ Len(clientTranscripts) < MaxSent
            /\ clientTranscripts' = Append(clientTranscripts, Trim(browserTranscriptRef))
            /\ echoSeen' = IF Trim(browserTranscriptRef) = EchoPhrase THEN 0 ELSE echoSeen
       ELSE UNCHANGED <<clientTranscripts, echoSeen>>
    /\ UNCHANGED <<transcript, now, singleSpeakerMode, lastTranscriptRef, utt, finalAt>>
    /\ HookFrame

\* The Clear button.
ClearTranscript ==
    /\ transcript' = clearTranscript(transcript)
    /\ op' = Op("clearTranscript", "none")
    /\ finalAt' = [r \in Roles |-> -1]
    /\ UNCHANGED <<now, hookVars, utt, echoSeen>>
    /\ HookFrame

Tick ==
    /\ now + TickMs <= MaxTimeMs
    /\ now' = now + TickMs
    /\ op' = Op("tick", "none")
    /\ UNCHANGED <<transcript, hookVars, utt, finalAt, echoSeen>>
    /\ HookFrame

HookInit == AppInit /\ SessionLive /\ PlatformIdle

HookNext ==
    \/ OnTranscript
    \/ OnResult
    \/ FlushTimer
    \/ ClearTranscript
    \/ Tick

HookSpec == HookInit /\ [][HookNext]_vars

\* ------------------------------------------------------------------ suggestion effect
\* useLiveStreaming.ts: the effect on [contextText, currentProjectId,
\* singleSpeakerMode, transcript].  A store update re-renders synchronously and
\* the effect's cleanup and body run before any other callback, so a change of a
\* dependency and the effect's run are one step.

SUGGESTION_DEBOUNCE_MS == 1600
SUGGESTION_CACHE_TTL_MS == 15000
SUGGESTION_HISTORY_SIZE == 6
SUGGESTION_MIN_MESSAGE_CHARS == 12

\* A message long enough for the suggestion history; Fragment is not.
LongText == Rep("x", 12)
SuggTexts == { LongText, Fragment }

\* currentProjectId ?? "default", with no project selected
ProjectKey == "default"

\* A slice that keeps the whole transcript.
LastNAll(t, n) == t

\* transcript.slice(-n)
LastN(t, n) == SubSeq(t, IF Len(t) > n THEN Len(t) - n + 1 ELSE 1, Len(t))

\* raw.filter((m, i) => i === 0 || m.text !== raw[i-1].text || m.role !== raw[i-1].role)
RECURSIVE DropAdjacent(_, _)
DropAdjacent(raw, i) ==
    IF i > Len(raw) THEN <<>>
    ELSE IF i = 1 \/ raw[i].text # raw[i - 1].text \/ raw[i].role # raw[i - 1].role
         THEN <<raw[i]>> \o DropAdjacent(raw, i + 1)
         ELSE DropAdjacent(raw, i + 1)

\* A history that keeps the entries shorter than the threshold.
HistoryKeepsShort(t, ssm) == DropAdjacent(LastN(t, SUGGESTION_HISTORY_SIZE), 1)

\* The history the timer callback builds from the transcript it closed over.
History(t, ssm) ==
    LET IsUser(m) == m.role = "user"
        LongEnough(m) == Len(Trim(m.text)) >= SUGGESTION_MIN_MESSAGE_CHARS
        sliced == LastN(t, SUGGESTION_HISTORY_SIZE)
        spoken == IF ssm THEN SelectSeq(sliced, IsUser) ELSE sliced
    IN  DropAdjacent(SelectSeq(spoken, LongEnough), 1)

\* A request key that leaves the history out.
RequestKeyNoHistory(history, context) == << <<>>, context, ProjectKey >>

\* JSON.stringify({ h: history.map(m => `${m.role}:${m.text}`), c, p }): equal
\* exactly when the role:text list, the context and the project are equal.
RequestKey(history, context) ==
    <<[i \in 1..Len(history) |-> <<history[i].role, history[i].text>>], context, ProjectKey>>

\* A lookup that answers from an entry of any age.
CacheHitAnyAge(cache, key, t) == cache # NoCache /\ cache.key = key

\* A lookup that never answers from the cache.
CacheMiss(cache, key, t) == FALSE

\* cached && cached.key === requestKey && now - cached.at < SUGGESTION_CACHE_TTL_MS
CacheHit(cache, key, t) ==
    /\ cache # NoCache
    /\ cache.key = key
    /\ t - cache.at < SUGGESTION_CACHE_TTL_MS

\* A guard that lets every non-empty transcript through.
QualifiesAnyEntry(t) == Len(t) > 0

\* The effect's guard: not (transcript empty), not (lastRole !== "other" && hasOther).
Qualifies(t) ==
    /\ Len(t) > 0
    /\ ~(Last(t).role # "other" /\ \E i \in 1..Len(t) : t[i].role = "other")

\* An abort that cancels nothing.
AbortNothing(reqs, id) == reqs

\* abortRef.current?.abort()
AbortCurrent(reqs, id) ==
    { IF r.id = id THEN [r EXCEPT !.aborted = TRUE] ELSE r : r \in reqs }

\* A publish guard that ignores the abort signal.
MayPublishAlways(r) == TRUE

\* if (!controller.signal.aborted) before the cache write and setSuggestions
MayPublish(r) == ~r.aborted

\* History: the requests a qualifying change supersedes.
Supersede(reqs) == { [r EXCEPT !.superseded = TRUE] : r \in reqs }

\* The previous run's cleanup, then the effect's body, for the dependencies t, c.
RunEffectFor(t, c, ssm) ==
    LET cleanedReqs == IF hasCleanup THEN AbortCurrent(inflight, abortRef) ELSE inflight
        cleanedAbort == IF hasCleanup THEN 0 ELSE abortRef
        cleanedTimer == IF hasCleanup THEN NoTimer ELSE debounceRef
    IN  IF Qualifies(t)
        THEN /\ inflight' = Supersede(AbortCurrent(cleanedReqs, cleanedAbort))
             /\ abortRef' = 0
             /\ isLoadingSuggestions' = TRUE
             /\ debounceRef' = [at |-> now, transcript |-> t, context |-> c,
                                ssm |-> ssm]
             /\ hasCleanup' = TRUE
        ELSE /\ inflight' = cleanedReqs
             /\ abortRef' = cleanedAbort
             /\ debounceRef' = cleanedTimer
             /\ hasCleanup' = FALSE
             /\ UNCHANGED isLoadingSuggestions

\* The effect as run by a change of the transcript.
RunEffect(t, c) == RunEffectFor(t, c, singleSpeakerMode)

\* What a change of a dependency leaves alone.
DepFrame == UNCHANGED <<now, hookVars, sessVars, suggestionCacheRef, nextReq, finalAt, echoSeen,
                        lastCall, utt>>

\* A final transcript entry (onTranscript -> addMessage), then the effect.
TranscriptAdd ==
    \E role \in Roles, text \in SuggTexts :
        /\ Len(transcript) < SuggMaxLen
        /\ transcript' = addMessage(transcript, role, text)
        /\ op' = Op("effect", "none")
        /\ RunEffect(transcript', contextText)
        /\ UNCHANGED <<suggestions, contextText>>
        /\ DepFrame

\* An interim line, then the effect.
TranscriptDraft ==
    \E role \in Roles, text \in SuggTexts :
        /\ Len(updateOrAppendDraft(transcript, role, text)) <= SuggMaxLen
        /\ updateOrAppendDraft(transcript, role, text) # transcript
        /\ transcript' = updateOrAppendDraft(transcript, role, text)
        /\ op' = Op("effect", "none")
        /\ RunEffect(transcript', contextText)
        /\ UNCHANGED <<suggestions, contextText>>
        /\ DepFrame

\* finalizeDraft; the store keeps the same array when no draft matches, and the
\* effect does not run.
TranscriptFinalize ==
    \E role \in Roles :
        /\ finalizeDraft(transcript, role) # transcript
        /\ transcript' = finalizeDraft(transcript, role)
        /\ op' = Op("effect", "none")
        /\ RunEffect(transcript', contextText)
        /\ UNCHANGED <<suggestions, contextText>>
        /\ DepFrame

\* clearTranscript sets a new empty array and empties the suggestions.
TranscriptClear ==
    /\ transcript' = clearTranscript(transcript)
    /\ suggestions' = <<>>
    /\ op' = Op("effect", "none")
    /\ RunEffect(transcript', contextText)
    /\ UNCHANGED contextText
    /\ DepFrame

\* The debounce timer's callback, up to the await of generateSuggestions.
DebounceFire ==
    /\ debounceRef # NoTimer
    /\ now >= debounceRef.at + SUGGESTION_DEBOUNCE_MS
    /\ LET history == History(debounceRef.transcript, debounceRef.ssm)
           key == RequestKey(history, debounceRef.context)
       IN  IF history = <<>>
           THEN /\ isLoadingSuggestions' = FALSE
                /\ op' = Op("timerEmpty", "none")
                /\ UNCHANGED <<suggestions, inflight, abortRef, nextReq, lastCall>>
           ELSE IF CacheHit(suggestionCacheRef, key, now)
           THEN /\ suggestions' = suggestionCacheRef.suggestions
                /\ isLoadingSuggestions' = FALSE
                /\ op' = Op("timerCacheHit", "none")
                /\ UNCHANGED <<inflight, abortRef, nextReq, lastCall>>
           ELSE /\ nextReq <= MaxRequests
                /\ inflight' = inflight \cup
                       {[id |-> nextReq, key |-> key, aborted |-> FALSE,
                         superseded |-> FALSE]}
                /\ abortRef' = nextReq
                /\ nextReq' = nextReq + 1
                /\ lastCall' = [key |-> key, at |-> now]
                /\ op' = Op("timerRequest", "none")
                /\ UNCHANGED <<suggestions, isLoadingSuggestions>>
    /\ debounceRef' = NoTimer
    /\ UNCHANGED <<transcript, now, hookVars, sessVars, contextText, hasCleanup, suggestionCacheRef,
                   utt, finalAt, echoSeen>>

\* finally { if (abortRef.current === controller) abortRef.current = null }
Finally(r) == abortRef' = IF abortRef = r.id THEN 0 ELSE abortRef

\* How a settled request is remembered in op.
Standing(r) == IF r.superseded THEN "superseded" ELSE "current"

\* generateSuggestions resolves with the service's answer.  The signal may
\* have been aborted after the last point where the fetch looks at it.
ResolveOk ==
    \E r \in inflight :
        /\ inflight' = inflight \ {r}
        /\ IF MayPublish(r)
           THEN /\ suggestionCacheRef' = [key |-> r.key, suggestions |-> <<r.id>>, at |-> now]
                /\ suggestions' = <<r.id>>
                /\ isLoadingSuggestions' = FALSE
           ELSE UNCHANGED <<suggestionCacheRef, suggestions, isLoadingSuggestions>>
        /\ Finally(r)
        /\ op' = Op("resolveOk", Standing(r))
        /\ UNCHANGED <<transcript, now, hookVars, sessVars, contextText, debounceRef, hasCleanup,
                       nextReq, utt, finalAt, echoSeen, lastCall>>

\* A catch block that leaves the loading flag alone.
MayClearLoadingNever(r) == FALSE

\* if (!controller.signal.aborted) before setLoadingSuggestions(false)
MayClearLoading(r) == ~r.aborted

\* generateSuggestions rejects: a network failure or a non-OK response.
ResolveError ==
    \E r \in inflight :
        /\ inflight' = inflight \ {r}
        /\ isLoadingSuggestions' = IF MayClearLoading(r) THEN FALSE ELSE isLoadingSuggestions
        /\ Finally(r)
        /\ op' = Op("resolveError", Standing(r))
        /\ UNCHANGED <<transcript, now, hookVars, sessVars, suggestions, contextText, debounceRef,
                       hasCleanup, suggestionCacheRef, nextReq, utt, finalAt, echoSeen,
                       lastCall>>

\* generateSuggestions rejects with AbortError: the catch returns.
ResolveAbort ==
    \E r \in inflight :
        /\ r.aborted
        /\ inflight' = inflight \ {r}
        /\ Finally(r)
        /\ op' = Op("resolveAbort", Standing(r))
        /\ UNCHANGED <<transcript, now, hookVars, sessVars, suggestions, isLoadingSuggestions,
                       contextText, debounceRef, hasCleanup, suggestionCacheRef, nextReq,
                       utt, finalAt, echoSeen, lastCall>>

SuggTick ==
    /\ now + TickMs <= MaxTimeMs
    /\ now' = now + TickMs
    /\ op' = Op("tick", "none")
    /\ UNCHANGED <<transcript, hookVars, sessVars, suggVars, utt, finalAt, echoSeen, lastCall>>

SuggNext ==
    \/ TranscriptAdd
    \/ TranscriptDraft
    \/ TranscriptFinalize
    \/ TranscriptClear
    \/ DebounceFire
    \/ ResolveOk
    \/ ResolveError
    \/ ResolveAbort
    \/ SuggTick

SuggSpec == Init /\ [][SuggNext]_vars

\* The browser runs a timer's callback once its delay has elapsed, and time
\* goes on.
SuggFairSpec == SuggSpec /\ WF_vars(DebounceFire) /\ WF_vars(SuggTick)

\* The timer callback's history as a function of the transcript and the
\* single-speaker flag the effect closed over: the effect has just run on a
\* transcript of up to HistMaxLen entries, the last one possibly a draft.
HistMaxLen == 7
HistEntries == { Message(r, x, FALSE) : r \in Roles, x \in SuggTexts }
HistFinals == UNION { [1..k -> HistEntries] : k \in 0..HistMaxLen }
HistTranscripts ==
    HistFinals \cup { [t EXCEPT ![Len(t)].isDraft = TRUE] : t \in HistFinals \ {<<>>} }

HistInit ==
    /\ transcript \in HistTranscripts
    /\ singleSpeakerMode \in BOOLEAN
    /\ isLoadingSuggestions = Qualifies(transcript)
    /\ debounceRef = IF Qualifies(transcript)
                     THEN [at |-> 0, transcript |-> transcript, context |-> "",
                           ssm |-> singleSpeakerMode]
                     ELSE NoTimer
    /\ hasCleanup = Qualifies(transcript)
    /\ RefsInit
    /\ SessionIdle
    /\ PlatformIdle

HistNext ==
    \/ DebounceFire
    \/ ResolveOk
    \/ SuggTick

HistorySpec == HistInit /\ [][HistNext]_vars

\* ------------------------------------------------------------------ session
\* useLiveStreaming.ts startStreaming / stopStreaming, with the parts of
\* AudioWebSocket (lib/api.ts) and useAudioCapture they drive.  A call of
\* startStreaming runs to `await startCapture()` in one step and resumes when
\* startCapture settles; stopStreaming likewise around `await stopCapture()`.

MaxStarts == 2
MaxStops == 2

SttModes == { "browser", "server" }

\* How a startCapture call ends.
\*   micDenied           getUserMedia rejects
\*   micOnly             enableOther is false
\*   extension           the extension is available: its listener is installed
\*   displayUnavailable  getDisplayMedia does not exist
\*   displayDenied       getDisplayMedia rejects
\*   noAudioTrack        the chosen display source has no audio track
\*   display             the display pipeline is built
DisplayOutcomes == { "displayUnavailable", "displayDenied", "noAudioTrack", "display" }
CaptureOutcomes == { "micDenied", "micOnly", "extension" } \cup DisplayOutcomes

\* Every outcome with an error ending the attempt.
AllErrorsNull == { "micDenied", "displayDenied", "displayUnavailable", "noAudioTrack" }

\* The outcomes in which startCapture returns null (its catch block).
NullOutcomes == { "micDenied", "displayDenied" }
\* The outcomes in which startCapture calls setError.
ErrorOutcomes == NullOutcomes \cup { "displayUnavailable", "noAudioTrack" }

\* The branch startCapture takes once the microphone is open.
OutcomePossible(outcome, enableOther, extAvailable) ==
    \/ outcome = "micDenied"
    \/ outcome = "micOnly" /\ ~enableOther
    \/ outcome = "extension" /\ enableOther /\ extAvailable
    \/ outcome \in DisplayOutcomes /\ enableOther /\ ~extAvailable

\* A display config emitted whenever the display branch was entered and returned.
SendsDisplayConfigOnError(outcome, configSent) ==
    outcome \in {"display", "noAudioTrack"} /\ ~configSent

\* startCapture emits the display channel's config once its pipeline is built.
SendsDisplayConfig(outcome, configSent) == outcome = "display" /\ ~configSent

\* new AudioWebSocket(); connect(): the underlying WebSocket is connecting.
\* sent counts the config messages per speaker, bare holds the speakers of the
\* config messages that went out with project_id undefined.
NewSocket ==
    [state |-> "connecting", streamConfigs |-> {}, sent |-> [r \in Roles |-> 0],
     audio |-> {}, bare |-> {}]

\* AudioWebSocket.sendConfig: stores the config, sends it when the socket is open.
sendConfig(s, speaker) ==
    [s EXCEPT !.streamConfigs = @ \cup {speaker},
              !.sent = IF s.state = "open" THEN [@ EXCEPT ![speaker] = @ + 1] ELSE @]

\* AudioWebSocket.sendAudio: sends the chunk when the socket is open.
sendAudio(s, speaker) ==
    IF s.state = "open" THEN [s EXCEPT !.audio = @ \cup {speaker}] ELSE s

\* A disconnect that leaves the WebSocket as it is.
DisconnectNothing(s) == s

\* AudioWebSocket.disconnect: closes the WebSocket it still holds.
disconnect(s) ==
    IF s.state \in {"connecting", "open"} THEN [s EXCEPT !.state = "closing"] ELSE s

\* ws.onopen: every stored config is sent through sendConfig.  streamConfigs
\* keeps sampleRate, channels and source only, so config.projectId is undefined.
Replay(s) ==
    [s EXCEPT !.sent = [r \in Roles |-> IF r \in s.streamConfigs THEN @[r] + 1 ELSE @[r]],
              !.bare = @ \cup s.streamConfigs]

\* The hook's onConfig callback: sendConfig on wsRef.current, if any.
OnConfig(socks, ref, speaker) ==
    IF ref # 0 THEN [socks EXCEPT ![ref] = sendConfig(@, speaker)] ELSE socks

\* wsRef.current?.disconnect()
OnDisconnect(socks, ref) ==
    IF ref # 0 THEN [socks EXCEPT ![ref] = disconnect(@)] ELSE socks

\* The hook's onAudioChunk callback of a render with the given mode.
OnAudioChunk(socks, ref, mode, speaker) ==
    IF ref = 0 \/ (speaker = "user" /\ mode = "browser") THEN socks
    ELSE [socks EXCEPT ![ref] = sendAudio(@, speaker)]

\* A start that sends none of the returned configs.
SendNoConfigs(s, speakers) == s

\* configs.forEach((config) => ws.sendConfig(...))
SendConfigs(s, speakers) ==
    LET a == IF "user" \in speakers THEN sendConfig(s, "user") ELSE s
    IN  IF "other" \in speakers THEN sendConfig(a, "other") ELSE a

\* Sockets whose WebSocket has not been closed by either side.
LiveSockets == { i \in 1..Len(sockets) : sockets[i].state \in {"connecting", "open"} }

\* What the session's handlers leave alone.
SessFrame == UNCHANGED <<transcript, now, singleSpeakerMode, lastTranscriptRef, suggVars,
                         utt, finalAt, echoSeen, lastCall, platVars>>

\* The single-speaker checkbox.  The suggestion effect depends on the flag.
SetSingleSpeakerMode ==
    /\ singleSpeakerMode' = ~singleSpeakerMode
    /\ RunEffectFor(transcript, contextText, ~singleSpeakerMode)
    /\ UNCHANGED op
    /\ UNCHANGED <<transcript, now, lastTranscriptRef, browserTranscriptRef,
                   browserFlushTimerRef, clientTranscripts, suggestions, contextText,
                   suggestionCacheRef, nextReq, sessVars, utt, finalAt, echoSeen, lastCall>>

\* The microphone mode selector.
SetSttUserMode ==
    \E mode \in SttModes :
        /\ mode # sttUserMode
        /\ sttUserMode' = mode
        /\ UNCHANGED op
        /\ UNCHANGED <<isRecording, isConnected, wsRef, sockets, starts, closure, stops,
                       recognizers, browserSpeechRef, capVars, browserTranscriptRef,
                       browserFlushTimerRef, clientTranscripts>>
        /\ SessFrame

\* The extension's content script announces itself.
ExtensionReady ==
    /\ ~extensionAvailable
    /\ extensionAvailable' = TRUE
    /\ UNCHANGED op
    /\ UNCHANGED <<isRecording, isConnected, sttUserMode, wsRef, sockets, starts, closure,
                   stops, recognizers, browserSpeechRef, liveStreams, micStreamRef,
                   liveProcessors, processorRef, micConfigSent, liveDisplayStreams,
                   displayStreamRef, liveDisplayProcessors, displayProcessorRef,
                   displayConfigSent, extListeners, extensionListenerRef,
                   extensionConfigSent, captureError, emitted, browserTranscriptRef,
                   browserFlushTimerRef, clientTranscripts>>
    /\ SessFrame

\* The Start button or the Space key: startStreaming up to `await startCapture()`,
\* and startCapture up to `await getUserMedia()`.
StartStreaming ==
    /\ op' = Op("startStreaming", "none")
    /\ IF isRecording
       THEN UNCHANGED <<sockets, wsRef, starts, closure, captureError>>
       ELSE /\ Len(sockets) < MaxStarts
            /\ sockets' = Append(sockets, NewSocket)
            /\ wsRef' = Len(sockets) + 1
            /\ starts' = starts \cup {Len(sockets) + 1}
            /\ closure' = Append(closure, [mode |-> sttUserMode,
                                           enableOther |-> ~singleSpeakerMode])
            /\ captureError' = "none"
    /\ UNCHANGED <<isRecording, isConnected, sttUserMode, stops, recognizers,
                   browserSpeechRef, liveStreams, micStreamRef, liveProcessors,
                   processorRef, micConfigSent, liveDisplayStreams, displayStreamRef,
                   liveDisplayProcessors, displayProcessorRef, displayConfigSent,
                   extListeners, extensionListenerRef, extensionConfigSent,
                   extensionAvailable, emitted, browserTranscriptRef,
                   browserFlushTimerRef, clientTranscripts>>
    /\ SessFrame

\* startCapture settles and startStreaming resumes.  The microphone pipeline
\* is built unless getUserMedia rejected; then the branch for the other channel.
CaptureSettles ==
    \E w \in starts, outcome \in CaptureOutcomes :
        LET micOpened == outcome # "micDenied"
            sendsMic == micOpened /\ ~micConfigSent
            sendsDisplay == SendsDisplayConfig(outcome, displayConfigSent)
            afterMic == IF sendsMic THEN OnConfig(sockets, wsRef, "user") ELSE sockets
            afterOnConfig == IF sendsDisplay THEN OnConfig(afterMic, wsRef, "other")
                             ELSE afterMic
            configs == (IF sendsMic THEN {"user"} ELSE {})
                           \cup (IF sendsDisplay THEN {"other"} ELSE {})
        IN  /\ OutcomePossible(outcome, closure[w].enableOther, extensionAvailable)
            /\ starts' = starts \ {w}
            /\ liveStreams' = IF micOpened THEN liveStreams \cup {w} ELSE liveStreams
            /\ micStreamRef' = IF micOpened THEN w ELSE micStreamRef
            /\ liveProcessors' = IF micOpened THEN liveProcessors \cup {w}
                                 ELSE liveProcessors
            /\ processorRef' = IF micOpened THEN w ELSE processorRef
            /\ micConfigSent' = (micConfigSent \/ micOpened)
            /\ displayConfigSent' = (displayConfigSent \/ sendsDisplay)
            /\ IF outcome = "display"
               THEN /\ liveDisplayStreams' = liveDisplayStreams \cup {w}
                    /\ displayStreamRef' = w
                    /\ liveDisplayProcessors' = liveDisplayProcessors \cup {w}
                    /\ displayProcessorRef' = w
               ELSE UNCHANGED <<liveDisplayStreams, displayStreamRef,
                                liveDisplayProcessors, displayProcessorRef>>
            /\ IF outcome = "extension"
               THEN /\ extListeners' = extListeners \cup {w}
                    /\ extensionListenerRef' = w
               ELSE UNCHANGED <<extListeners, extensionListenerRef>>
            /\ captureError' = IF outcome \in ErrorOutcomes THEN outcome ELSE captureError
            /\ emitted' = emitted \cup { <<w, r>> : r \in configs }
            /\ IF outcome \notin NullOutcomes
               THEN /\ sockets' = [afterOnConfig EXCEPT ![w] = SendConfigs(@, configs)]
                    /\ isRecording' = TRUE
                    /\ IF closure[w].mode = "browser"
                       THEN /\ browserTranscriptRef' = <<>>
                            /\ browserFlushTimerRef' = NoTimer
                            /\ recognizers' = recognizers \cup {w}
                            /\ browserSpeechRef' = w
                       ELSE UNCHANGED <<browserTranscriptRef, browserFlushTimerRef,
                                        recognizers, browserSpeechRef>>
                    /\ UNCHANGED <<wsRef, isConnected>>
               ELSE /\ sockets' = [afterOnConfig EXCEPT ![w] = disconnect(@)]
                    /\ wsRef' = 0
                    /\ isConnected' = FALSE
                    /\ UNCHANGED <<isRecording, browserTranscriptRef, browserFlushTimerRef,
                                   recognizers, browserSpeechRef>>
            /\ op' = Op("captureSettles", outcome)
            /\ UNCHANGED <<sttUserMode, closure, stops, clientTranscripts,
                           extensionConfigSent, extensionAvailable>>
            /\ SessFrame

\* What a socket event or an audio frame leaves alone besides the sockets.
WireFrame == UNCHANGED <<isRecording, sttUserMode, wsRef, starts, closure, stops,
                         recognizers, browserSpeechRef, liveStreams, micStreamRef,
                         liveProcessors, processorRef, micConfigSent, liveDisplayStreams,
                         displayStreamRef, liveDisplayProcessors, displayProcessorRef,
                         displayConfigSent, extListeners, extensionListenerRef,
                         extensionAvailable, captureError, browserTranscriptRef,
                         browserFlushTimerRef, clientTranscripts>>

\* ws.onopen: onOpen, then the stored configs are sent again.
WsOpen ==
    \E i \in 1..Len(sockets) :
        /\ sockets[i].state = "connecting"
        /\ sockets' = [sockets EXCEPT ![i] = Replay([@ EXCEPT !.state = "open"])]
        /\ isConnected' = TRUE
        /\ op' = Op("wsOpen", "none")
        /\ UNCHANGED <<extensionConfigSent, emitted>>
        /\ WireFrame
        /\ SessFrame

\* ws.onclose after disconnect(): onClose.
WsClosed ==
    \E i \in 1..Len(sockets) :
        /\ sockets[i].state = "closing"
        /\ sockets' = [sockets EXCEPT ![i].state = "closed"]
        /\ isConnected' = FALSE
        /\ op' = Op("wsClosed", "none")
        /\ UNCHANGED <<extensionConfigSent, emitted>>
        /\ WireFrame
        /\ SessFrame

\* The server or the network ends the connection: onError and onClose.
WsDrop ==
    \E i \in 1..Len(sockets) :
        /\ sockets[i].state \in {"connecting", "open"}
        /\ sockets' = [sockets EXCEPT ![i].state = "closed"]
        /\ isConnected' = FALSE
        /\ op' = Op("wsDrop", "none")
        /\ UNCHANGED <<extensionConfigSent, emitted>>
        /\ WireFrame
        /\ SessFrame

\* processor.onaudioprocess of a microphone pipeline: onAudioChunk(chunk, "user").
MicFrame ==
    \E p \in liveProcessors :
        /\ sockets' = OnAudioChunk(sockets, wsRef, closure[p].mode, "user")
        /\ UNCHANGED op
        /\ UNCHANGED <<isConnected, extensionConfigSent, emitted>>
        /\ WireFrame
        /\ SessFrame

\* displayProcessor.onaudioprocess: onAudioChunk(chunk, "other").
DisplayFrame ==
    \E p \in liveDisplayProcessors :
        /\ sockets' = OnAudioChunk(sockets, wsRef, closure[p].mode, "other")
        /\ UNCHANGED op
        /\ UNCHANGED <<isConnected, extensionConfigSent, emitted>>
        /\ WireFrame
        /\ SessFrame

\* An audioChunk message of the extension reaches an installed listener: the
\* config on the first chunk, then onAudioChunk(data, "other").
ExtensionChunk ==
    \E l \in extListeners :
        /\ sockets' = OnAudioChunk(IF extensionConfigSent THEN sockets
                                   ELSE OnConfig(sockets, wsRef, "other"),
                                   wsRef, closure[l].mode, "other")
        /\ extensionConfigSent' = TRUE
        /\ emitted' = IF extensionConfigSent THEN emitted
                      ELSE emitted \cup { <<l, "other">> }
        /\ UNCHANGED op
        /\ UNCHANGED isConnected
        /\ WireFrame
        /\ SessFrame

\* A stop that forwards nothing of the buffer.
StopForwardsNothing(buf, ref) == FALSE

\* stopStreaming: whether the pending buffer goes to sendClientTranscript.
StopForwards(buf, ref) ==
    Len(Trim(buf)) >= BROWSER_STT_MIN_SEND_CHARS /\ ref # 0

\* The Stop button or the Space key: stopStreaming up to `await stopCapture()`,
\* and stopCapture up to its first await.
StopStreaming ==
    /\ op' = Op("stopStreaming", "none")
    /\ IF ~isRecording
       THEN UNCHANGED <<stops, browserFlushTimerRef, browserTranscriptRef,
                        clientTranscripts, recognizers, browserSpeechRef, extListeners,
                        extensionListenerRef, liveDisplayProcessors, displayProcessorRef>>
       ELSE /\ stops < MaxStops
            /\ stops' = stops + 1
            /\ browserFlushTimerRef' = NoTimer
            /\ IF StopForwards(browserTranscriptRef, wsRef)
               THEN /\ Len(clientTranscripts) < MaxSent
                    /\ clientTranscripts' =
                           Append(clientTranscripts, Trim(browserTranscriptRef))
               ELSE UNCHANGED clientTranscripts
            /\ browserTranscriptRef' = <<>>
            /\ recognizers' = recognizers \ {browserSpeechRef}
            /\ browserSpeechRef' = 0
            /\ extListeners' = extListeners \ {extensionListenerRef}
            /\ extensionListenerRef' = 0
            /\ liveDisplayProcessors' = liveDisplayProcessors \ {displayProcessorRef}
            /\ displayProcessorRef' = 0
    /\ UNCHANGED <<isRecording, isConnected, sttUserMode, wsRef, sockets, starts, closure,
                   liveStreams, micStreamRef, liveProcessors, processorRef, micConfigSent,
                   liveDisplayStreams, displayStreamRef, displayConfigSent,
                   extensionConfigSent, extensionAvailable, captureError, emitted>>
    /\ SessFrame

\* Which close() of stopCapture rejects, if any; its catch skips what follows.
StopFailures == { "none", "displayClose", "micClose" }

\* stopCapture settles and stopStreaming resumes.
StopResumes ==
    \E fails \in StopFailures :
        LET displayDone == fails # "displayClose"
            micDone == fails = "none"
        IN  /\ stops > 0
            /\ fails = "displayClose" => displayStreamRef # 0
            /\ fails = "micClose" => micStreamRef # 0
            /\ stops' = stops - 1
            /\ IF displayDone
               THEN /\ liveDisplayStreams' = liveDisplayStreams \ {displayStreamRef}
                    /\ displayStreamRef' = 0
                    /\ displayConfigSent' = FALSE
                    /\ liveProcessors' = liveProcessors \ {processorRef}
                    /\ processorRef' = 0
               ELSE UNCHANGED <<liveDisplayStreams, displayStreamRef, displayConfigSent,
                                liveProcessors, processorRef>>
            /\ IF micDone
               THEN /\ liveStreams' = liveStreams \ {micStreamRef}
                    /\ micStreamRef' = 0
                    /\ micConfigSent' = FALSE
                    /\ extensionConfigSent' = FALSE
               ELSE UNCHANGED <<liveStreams, micStreamRef, micConfigSent,
                                extensionConfigSent>>
            /\ captureError' = IF fails = "none" THEN captureError ELSE fails
            /\ sockets' = OnDisconnect(sockets, wsRef)
            /\ wsRef' = 0
            /\ isConnected' = FALSE
            /\ isRecording' = FALSE
            /\ op' = Op("stopResumes", fails)
            /\ UNCHANGED <<sttUserMode, starts, closure, recognizers, browserSpeechRef,
                           liveDisplayProcessors, displayProcessorRef, extListeners,
                           extensionListenerRef, extensionAvailable, emitted,
                           browserTranscriptRef, browserFlushTimerRef, clientTranscripts>>
            /\ SessFrame

\* Start, stop and the socket's events, with the settings left as they are.
SessionNext ==
    \/ StartStreaming
    \/ CaptureSettles
    \/ WsOpen
    \/ WsClosed
    \/ WsDrop
    \/ StopStreaming
    \/ StopResumes

SessionSpec == Init /\ [][SessionNext]_vars

\* Capture under every setting, the sockets left connecting.
CaptureNext ==
    \/ SetSingleSpeakerMode
    \/ SetSttUserMode
    \/ ExtensionReady
    \/ StartStreaming
    \/ CaptureSettles
    \/ StopStreaming
    \/ StopResumes

CaptureSpec == Init /\ [][CaptureNext]_vars

\* What goes over the sockets: configs and audio frames.
WireNext ==
    \/ SetSttUserMode
    \/ ExtensionReady
    \/ StartStreaming
    \/ CaptureSettles
    \/ WsOpen
    \/ MicFrame
    \/ DisplayFrame
    \/ ExtensionChunk
    \/ StopStreaming
    \/ StopResumes

WireSpec == Init /\ [][WireNext]_vars

\* A session in browser mode with the recognizer's results, the flush timer
\* and the clock.
FlushNext ==
    \/ StartStreaming
    \/ CaptureSettles
    \/ OnResult
    \/ FlushTimer
    \/ Tick
    \/ StopStreaming
    \/ StopResumes

FlushSpec == Init /\ [][FlushNext]_vars

\* ------------------------------------------------------------------ C1
\* C1: a run of interim events on a channel closed by one final event, in any
\* interleaving with the other channel's events, leaves exactly one more
\* non-draft entry of that channel and no draft entry of it.
C1_OneFinalEntryPerUtterance ==
    [][\A r \in Roles :
          (op'.name = "finalizeDraft" /\ op'.role = r /\ utt[r] = "open")
              => /\ DraftIdx(transcript', r) = {}
                 /\ Cardinality(FinalIdx(transcript', r))
                        = Cardinality(FinalIdx(transcript, r)) + 1]_vars

\* ------------------------------------------------------------------ C2
\* The merge window of the design: "on the order of 1.5-2 seconds".
MergeWindowMs == 1500

\* C2: a final event accepted on a channel within the merge window of that
\* channel's previous finalization, the previous entry being the last one, leaves
\* one entry whose text is the previous text, a space and the new text; one
\* accepted after the window appends a new entry.
C2_MergeWithinWindow ==
    [][\A r \in Roles :
          (/\ op'.name = "onTranscript" /\ op'.role = r
           /\ transcript' # transcript
           /\ finalAt[r] >= 0
           /\ Len(transcript) > 0 /\ Last(transcript).role = r)
              => IF now - finalAt[r] < MergeWindowMs
                 THEN /\ Len(transcript') = Len(transcript)
                      /\ \E text \in ServerTexts :
                             Last(transcript').text
                                 = Last(transcript).text \o <<" ">> \o Trim(text)
                 ELSE Len(transcript') = Len(transcript) + 1]_vars

\* ------------------------------------------------------------------ C3
\* C3: once EchoPhrase has been forwarded as client_transcript, the first
\* transcription of exactly that text on the user channel is dropped and the
\* second one is not.
C3_EchoDroppedOnce ==
    [][/\ (echoSeen = 0 /\ echoSeen' = 1) => transcript' = transcript
       /\ (echoSeen = 1 /\ echoSeen' = 2) => transcript' # transcript]_vars

\* ------------------------------------------------------------------ C4
\* C4: in every reachable transcript, each channel has at most one draft
\* entry and no later entry of that channel follows it; a non-draft entry's
\* text changes only by appendToLastMessage.
C4_OneTrailingDraft ==
    /\ [](\A r \in Roles :
             /\ Cardinality(DraftIdx(transcript, r)) <= 1
             /\ \A i \in DraftIdx(transcript, r) :
                    \A j \in (i + 1)..Len(transcript) : transcript[j].role # r)
    /\ [][\A i \in 1..Len(transcript) :
             (/\ i <= Len(transcript')
              /\ ~transcript[i].isDraft
              /\ transcript'[i].text # transcript[i].text)
                 => op'.name = "appendToLastMessage"]_vars

\* ------------------------------------------------------------------ C5
\* C5: the answer to a request that a later qualifying change superseded is
\* never published: when such a request settles, neither the suggestions nor
\* the cache change.
C5_SupersededNeverPublished ==
    [][\A r \in inflight :
          (r.superseded /\ r.id \notin { q.id : q \in inflight' })
              => /\ suggestions' = suggestions
                 /\ suggestionCacheRef' = suggestionCacheRef]_vars

\* A superseded request's answer arrived.
C5_Witness == op = Op("resolveOk", "superseded")

\* ------------------------------------------------------------------ C6
\* C6: at most one request in flight has not been aborted, and it is the
\* newest: every older request in flight has been aborted.
C6_OneLiveRequest ==
    /\ Cardinality({ r \in inflight : ~r.aborted }) <= 1
    /\ \A r \in inflight : r.id < nextReq - 1 => r.aborted

\* Two requests in flight, the older one aborted.
C6_Witness == Cardinality(inflight) = 2

\* ------------------------------------------------------------------ C7
TimerOps == { "timerEmpty", "timerCacheHit", "timerRequest" }

\* C7 as stated: two network calls for the same request content are at least
\* the cache TTL apart, whatever became of the first.
C7_OneCallPerContent ==
    [][(/\ nextReq' = nextReq + 1
        /\ lastCall # NoCall
        /\ lastCall'.key = lastCall.key)
           => now - lastCall.at >= SUGGESTION_CACHE_TTL_MS]_vars

\* C7, amended: when the timer fires for a content whose answer is the cache
\* entry and is younger than the TTL, no network call is made and the cached
\* answer is published.
C7_CachedContentNoCall ==
    [][(/\ op'.name \in TimerOps
        /\ debounceRef # NoTimer
        /\ History(debounceRef.transcript, debounceRef.ssm) # <<>>
        /\ suggestionCacheRef # NoCache
        /\ suggestionCacheRef.key
               = RequestKey(History(debounceRef.transcript, debounceRef.ssm),
                            debounceRef.context)
        /\ now - suggestionCacheRef.at < SUGGESTION_CACHE_TTL_MS)
           => /\ nextReq' = nextReq
              /\ lastCall' = lastCall
              /\ inflight' = inflight
              /\ suggestions' = suggestionCacheRef.suggestions]_vars

\* The timer fired and the cache answered.
C7_Witness == op = Op("timerCacheHit", "none")

\* ------------------------------------------------------------------ C8
\* C8 as stated: a debounce timer is pending or a request is live only while
\* the last entry is a non-draft entry of the other channel.
C8_OnlyAfterOtherFinal ==
    (debounceRef # NoTimer \/ \E r \in inflight : ~r.aborted)
        => /\ Len(transcript) > 0
           /\ Last(transcript).role = "other"
           /\ ~Last(transcript).isDraft

\* The transcript is not empty, and its last entry is on the other channel or
\* no entry is.
TriggerState(t) ==
    /\ Len(t) > 0
    /\ \/ Last(t).role = "other"
       \/ \A i \in 1..Len(t) : t[i].role # "other"

\* C8, amended: a debounce timer is started, loading is set, and a timer or a
\* live request exists, only with a transcript that is not empty and whose last
\* entry is on the other channel (draft or not) or that has no entry of the
\* other channel.
C8_OnlyWhenTriggered ==
    /\ []((debounceRef # NoTimer \/ \E r \in inflight : ~r.aborted)
             => TriggerState(transcript))
    /\ []((debounceRef # NoTimer) => debounceRef.transcript = transcript)
    /\ [][((debounceRef' # NoTimer /\ debounceRef' # debounceRef)
             \/ (~isLoadingSuggestions /\ isLoadingSuggestions'))
                => TriggerState(transcript')]_vars

\* A timer runs for a transcript whose last entry is the user's.
C8_Witness ==
    /\ debounceRef # NoTimer
    /\ Last(transcript).role = "user"

\* ------------------------------------------------------------------ C9
\* C9: while isLoadingSuggestions is true a debounce timer is pending or a
\* request that was not aborted is in flight.
C9_LoadingHasOwner ==
    isLoadingSuggestions
        => (debounceRef # NoTimer \/ \E r \in inflight : ~r.aborted)

\* ------------------------------------------------------------------ C10
\* C10: a start issued while a session is active (isRecording) or still
\* starting (a startStreaming call is at `await startCapture()`) changes
\* nothing: no socket is created, wsRef keeps its value and no further capture
\* is requested.
C10_StartWhileLiveIsNoOp ==
    [][(op'.name = "startStreaming" /\ (isRecording \/ starts # {}))
          => /\ sockets' = sockets
             /\ wsRef' = wsRef
             /\ starts' = starts]_vars

C12_DropTearsSessionDown ==
    [][(op'.name = "wsDrop" /\ isRecording /\ wsRef # 0 /\ sockets'[wsRef].state # sockets[wsRef].state)
          => /\ ~isRecording'
             /\ liveStreams' = {}
             /\ liveProcessors' = {}
             /\ recognizers' = {}
             /\ Len(sockets') = Len(sockets)]_vars

C15_FailedStartReleasesHandles ==
    [][(op'.name = "captureSettles" /\ starts' # starts
            /\ op'.role \in {"micDenied", "displayDenied"})
          => \A w \in starts \ starts' :
                 /\ w \notin liveStreams'
                 /\ w \notin liveProcessors'
                 /\ w \notin liveDisplayStreams'
                 /\ w \notin liveDisplayProcessors'
                 /\ w \notin extListeners']_vars

\* ------------------------------------------------------------------ C16
\* C16: on every socket and for every channel, audio of the channel goes on
\* the wire only while the socket is open and after a config of that channel
\* has been sent on it (directly or by the replay on open; a handler that
\* sends both sends the config first).
C16_ConfigBeforeAudio ==
    [][\A i \in 1..Len(sockets) : \A ch \in Roles :
           (ch \in sockets'[i].audio /\ ch \notin sockets[i].audio)
               => /\ sockets[i].state = "open"
                  /\ sockets'[i].sent[ch] > 0]_vars

\* ------------------------------------------------------------------ C17
\* C17: on every socket, at most one config message of each channel goes on
\* the wire (onConfig, the returned configs and the replay on open together).
C17_OneConfigPerChannel ==
    \A i \in 1..Len(sockets) : \A ch \in Roles : sockets[i].sent[ch] <= 1

\* ------------------------------------------------------------------ C18
\* C18: in every session, also one started after a failed start, the capture
\* emits a ChannelConfig for each channel it captures: every pipeline built by
\* an attempt that resolved, with no session live and no other attempt pending,
\* has its channel's config emitted by that attempt.
C18_ConfigEmittedPerChannel ==
    [][(op'.name = "captureSettles" /\ starts = {wsRef} /\ starts' = {}
            /\ ~isRecording /\ op'.role \notin {"micDenied", "displayDenied"})
          => \A w \in starts \ starts' :
                 /\ w \in liveProcessors' => <<w, "user">> \in emitted'
                 /\ w \in liveDisplayProcessors' => <<w, "other">> \in emitted']_vars

\* ------------------------------------------------------------------ C19
\* C19: an accepted stop runs to its end whether or not one of its steps
\* fails: when stopStreaming returns, the capture the refs led to is stopped,
\* the socket in wsRef is closed, wsRef is cleared and isRecording is false.
C19_StopRunsToEnd ==
    [][(op'.name = "stopResumes" /\ stops' # stops)
          => /\ ~isRecording'
             /\ wsRef' = 0
             /\ wsRef # 0 => wsRef \notin LiveSockets'
             /\ micStreamRef \notin liveStreams'
             /\ processorRef \notin liveProcessors'
             /\ displayStreamRef \notin liveDisplayStreams']_vars

\* ------------------------------------------------------------------ C20
\* C20 as stated: when a stop is accepted, whatever final text is buffered
\* and not yet sent is handed to sendClientTranscript; none of it is lost.
C20_BufferedTextForwardedOnStop ==
    [][(op'.name = "stopStreaming" /\ stops' # stops /\ Trim(browserTranscriptRef) # <<>>)
          => clientTranscripts' = Append(clientTranscripts, Trim(browserTranscriptRef))]_vars

\* C20 amended: when a stop is accepted, the flush timer is cancelled and the
\* buffer emptied; the trimmed buffer is handed to sendClientTranscript, while
\* the socket in wsRef has not been disconnected by this stop, exactly when it
\* has at least BROWSER_STT_MIN_SEND_CHARS characters and wsRef holds a
\* socket; a shorter text is discarded.
C20_LongBufferedTextForwardedOnStop ==
    [][(op'.name = "stopStreaming" /\ stops' # stops)
          => /\ browserTranscriptRef' = <<>>
             /\ browserFlushTimerRef' = NoTimer
             /\ wsRef' = wsRef
             /\ sockets' = sockets
             /\ IF Len(Trim(browserTranscriptRef)) >= 6 /\ wsRef # 0
                THEN clientTranscripts' =
                         Append(clientTranscripts, Trim(browserTranscriptRef))
                ELSE clientTranscripts' = clientTranscripts]_vars

\* A stop has just forwarded a buffered phrase the flush timer had not sent
\* yet, and the socket it went to is still connecting or open.
C20_Witness ==
    /\ op.name = "stopStreaming"
    /\ stops = 1
    /\ clientTranscripts = << Phrase >>
    /\ browserTranscriptRef = <<>>
    /\ wsRef # 0
    /\ wsRef \in LiveSockets
    /\ isRecording

\* ------------------------------------------------------------------ C21
\* C21: a session started in browser mode sends no microphone audio to the
\* server: on the socket of a start made with the mode "browser", no audio
\* message with speaker user ever goes on the wire, whatever the mode setting
\* is changed to afterwards.
C21_NoUserAudioInBrowserMode ==
    \A i \in 1..Len(sockets) :
        closure[i].mode = "browser" => "user" \notin sockets[i].audio

\* ------------------------------------------------------------------ C22
\* The scenario's transcript: one final entry of the other channel, long
\* enough for the history.
HelloTranscript == << Message("other", LongText, FALSE) >>
HelloKey == << << <<"other", LongText>> >>, "", ProjectKey >>

\* The debounce timer of the effect's run for HelloTranscript is pending and
\* will come due, nothing is cached and a request can still be numbered.
HelloPending ==
    /\ transcript = HelloTranscript
    /\ debounceRef # NoTimer
    /\ debounceRef.transcript = HelloTranscript
    /\ ~debounceRef.ssm
    /\ suggestionCacheRef = NoCache
    /\ nextReq <= MaxRequests
    /\ now + TickMs <= MaxTimeMs

\* C22: with the transcript the single entry {other, text} and nothing cached,
\* the timer's callback issues one request whose history is exactly that
\* entry; no request is issued while the timer is pending or after it has
\* fired, as long as nothing changes; and unless the transcript changes first,
\* the request is issued once the debounce delay has elapsed.
C22_OneRequestForSingleEntry ==
    /\ [][(HelloPending /\ debounceRef' = NoTimer /\ transcript' = transcript)
             => /\ now >= debounceRef.at + SUGGESTION_DEBOUNCE_MS
                /\ nextReq' = nextReq + 1
                /\ lastCall' = [key |-> HelloKey, at |-> now]
                /\ Cardinality(inflight') = Cardinality(inflight) + 1]_vars
    /\ [][(transcript = HelloTranscript /\ transcript' = transcript
              /\ nextReq' # nextReq)
             => /\ debounceRef # NoTimer
                /\ debounceRef' = NoTimer
                /\ nextReq' = nextReq + 1]_vars
    /\ (HelloPending ~> (transcript # HelloTranscript
                            \/ (lastCall # NoCall /\ lastCall.key = HelloKey)))

\* The request for the single entry has been issued, the transcript still
\* being that entry.
C22_Witness ==
    /\ op = Op("timerRequest", "none")
    /\ transcript = HelloTranscript
    /\ lastCall = [key |-> HelloKey, at |-> now]
    /\ nextReq = 2
    /\ Cardinality(inflight) = 1

\* ------------------------------------------------------------------ C23
\* Array.prototype.filter by position: the entries of s at the indices in K,
\* in their order.
RECURSIVE KeepFrom(_, _, _)
KeepFrom(s, K, i) ==
    IF i > Len(s) THEN <<>>
    ELSE (IF i \in K THEN <<s[i]>> ELSE <<>>) \o KeepFrom(s, K, i + 1)

\* history.map((m) => `${m.role}:${m.text}`)
Pairs(h) == [i \in 1..Len(h) |-> <<h[i].role, h[i].text>>]

\* Of the indices in K, those whose entry differs in role or text from the
\* entry at the nearest smaller index in K.
Collapsed(t, K) ==
    { i \in K : \A j \in K :
          (j < i /\ \A k \in K : ~(j < k /\ k < i))
              => (t[j].role # t[i].role \/ t[j].text # t[i].text) }

\* C23 as stated: the history of an issued request is the last 6 non-draft
\* entries, minus the entries shorter than the threshold, adjacent entries of
\* the same channel and text collapsed; it holds no draft and at most 6 entries.
C23_HistoryOfLastFinals ==
    [][nextReq' # nextReq =>
          LET t == debounceRef.transcript
              finals == { i \in 1..Len(t) : ~t[i].isDraft }
              lastSix == { i \in finals : Cardinality({ j \in finals : j > i }) < 6 }
              long == { i \in lastSix : Len(Trim(t[i].text)) >= 12 }
          IN  /\ lastCall'.key[1] = Pairs(KeepFrom(t, Collapsed(t, long), 1))
              /\ Len(lastCall'.key[1]) <= 6]_vars

\* C23 amended: the history of an issued request is built from the last 6
\* entries of the transcript, drafts included: in single-speaker mode only the
\* user's entries of these, minus the entries shorter than the threshold,
\* adjacent remaining entries of the same channel and text collapsed; it is
\* not empty and has at most 6 entries.
C23_HistoryOfLastEntries ==
    [][nextReq' # nextReq =>
          LET t == debounceRef.transcript
              lastSix == { i \in 1..Len(t) : i > Len(t) - 6 }
              spoken == { i \in lastSix : debounceRef.ssm => t[i].role = "user" }
              long == { i \in spoken : Len(Trim(t[i].text)) >= 12 }
          IN  /\ lastCall'.key[1] = Pairs(KeepFrom(t, Collapsed(t, long), 1))
              /\ Len(lastCall'.key[1]) \in 1..6]_vars

\* A request was issued in single-speaker mode for a transcript of seven long
\* entries with both channels among the last six and an adjacent repeat.
C23_Witness ==
    /\ op = Op("timerRequest", "none")
    /\ singleSpeakerMode
    /\ Len(transcript) = 7
    /\ \A i \in 1..7 : transcript[i].text = LongText
    /\ transcript[1].role = "user"
    /\ \E i \in 2..7 : transcript[i].role = "other"
    /\ \E i \in 2..6 : transcript[i].role = "user" /\ transcript[i + 1].role = "user"
    /\ lastCall # NoCall
    /\ Len(lastCall.key[1]) \in 1..5

\* ------------------------------------------------------------------ C24
\* No entry of the last 6 of the timer's transcript (the user's only, in
\* single-speaker mode) has a trimmed text of at least 12 characters.
NothingToSend ==
    /\ debounceRef # NoTimer
    /\ \A i \in 1..Len(debounceRef.transcript) :
           \/ i <= Len(debounceRef.transcript) - 6
           \/ debounceRef.ssm /\ debounceRef.transcript[i].role # "user"
           \/ Len(Trim(debounceRef.transcript[i].text)) < 12

\* C24: when the debounce timer expires and the filtered history is empty, no
\* request is issued, the loading flag is cleared, and the suggestions list,
\* the cache and the requests in flight are left as they were.
C24_EmptyHistoryAbortsSilently ==
    [][(NothingToSend /\ debounceRef' = NoTimer /\ transcript' = transcript)
          => /\ nextReq' = nextReq
             /\ inflight' = inflight
             /\ lastCall' = lastCall
             /\ abortRef' = abortRef
             /\ ~isLoadingSuggestions'
             /\ suggestions' = suggestions
             /\ suggestionCacheRef' = suggestionCacheRef
             /\ op'.name # "resolveError"]_vars

\* The timer has just expired on a transcript whose only entry is too short,
\* with an answer in the cache from before the transcript was cleared.
C24_Witness ==
    /\ op = Op("timerEmpty", "none")
    /\ Len(transcript) = 1
    /\ transcript[1].text = Fragment
    /\ suggestionCacheRef # NoCache
    /\ ~isLoadingSuggestions
    /\ lastCall # NoCall
    /\ nextReq = 2

\* ------------------------------------------------------------------ C25
\* The suggestion effect beside a live session.
RecoverySpec ==
    HookInit /\ [][SuggNext]_vars /\ WF_vars(DebounceFire) /\ WF_vars(SuggTick)

\* Two identical remarks of the interlocutor: the second is the change after
\* the request for the first.
RetryTranscript == << Message("other", LongText, FALSE), Message("other", LongText, FALSE) >>

\* The first request is over without an answer in the cache, and the timer of
\* the next qualifying change is pending.
RetryPending ==
    /\ transcript = RetryTranscript
    /\ debounceRef # NoTimer
    /\ suggestionCacheRef = NoCache
    /\ nextReq = 2
    /\ now + TickMs <= MaxTimeMs

\* C25: when a request that was not cancelled fails, the loading flag is
\* cleared, the published suggestions, the cache and the session (isRecording,
\* transport, capture) are unchanged; a later qualifying transcript change arms
\* the debounce timer as before, and its expiry issues a new request.
C25_FailureRecovered ==
    /\ [][\A r \in inflight \ inflight' :
              (op'.name = "resolveError" /\ ~r.aborted)
                  => /\ ~isLoadingSuggestions'
                     /\ suggestions' = suggestions
                     /\ suggestionCacheRef' = suggestionCacheRef
                     /\ sessVars' = sessVars
                     /\ transcript' = transcript]_vars
    /\ [][(transcript' # transcript /\ transcript' # <<>>
           /\ transcript'[Len(transcript')].role = "other")
              => /\ debounceRef' # NoTimer
                 /\ debounceRef'.transcript = transcript'
                 /\ debounceRef'.at = now
                 /\ isLoadingSuggestions']_vars
    /\ [][(RetryPending /\ debounceRef' = NoTimer /\ transcript' = transcript)
              => /\ nextReq' = 3
                 /\ lastCall'.key = HelloKey
                 /\ \E r \in inflight' : r.id = 2 /\ ~r.aborted]_vars
    /\ (RetryPending ~> (transcript # RetryTranscript \/ nextReq = 3))

\* A request has just failed, uncancelled, while the answer to an earlier one
\* is on display and the session is recording.
C25_Witness ==
    /\ op = Op("resolveError", "current")
    /\ ~isLoadingSuggestions
    /\ suggestions = <<1>>
    /\ suggestionCacheRef # NoCache
    /\ nextReq = 3
    /\ inflight = {}
    /\ isRecording
    /\ wsRef = 1

\* ------------------------------------------------------------------ C26
\* The debounce timer expires with a history to send: the step of the cache
\* lookup.
Lookup ==
    /\ debounceRef # NoTimer
    /\ ~NothingToSend
    /\ debounceRef' = NoTimer
    /\ transcript' = transcript

\* The request key of the pending timer.
PendingKey == RequestKey(History(debounceRef.transcript, debounceRef.ssm), debounceRef.context)

\* C26: a lookup step that makes no network call found a cache entry with the
\* request's key, younger than the TTL; a lookup whose key differs from the
\* entry's, or whose entry is TTL old or older, or that finds no entry, makes
\* a network call for that key.
C26_CacheOnlyWhenFreshAndSameKey ==
    /\ [][(Lookup /\ nextReq' = nextReq)
              => /\ suggestionCacheRef # NoCache
                 /\ suggestionCacheRef.key = PendingKey
                 /\ now - suggestionCacheRef.at < 15000
                 /\ inflight' = inflight
                 /\ suggestions' = suggestionCacheRef.suggestions]_vars
    /\ [][(/\ Lookup
           /\ \/ suggestionCacheRef = NoCache
              \/ suggestionCacheRef.key # PendingKey
              \/ now - suggestionCacheRef.at >= 15000)
              => /\ nextReq' = nextReq + 1
                 /\ lastCall' = [key |-> PendingKey, at |-> now]
                 /\ \E r \in inflight' \ inflight : r.key = PendingKey /\ ~r.aborted]_vars

\* A network call has just been made for the very content the cache holds,
\* the entry being TTL old.
C26_Witness ==
    /\ op = Op("timerRequest", "none")
    /\ suggestionCacheRef # NoCache
    /\ lastCall # NoCall
    /\ suggestionCacheRef.key = lastCall.key
    /\ lastCall.at - suggestionCacheRef.at = 15000
    /\ nextReq = 3

\* ------------------------------------------------------------------ C27
\* A text with a character that is not a space.
NotBlank(x) == \E i \in 1..Len(x) : x[i] # " "

\* C27: an empty or whitespace-only text is accepted neither by onTranscript
\* nor by onResult; every entry appended to the transcript, every value
\* written to lastTranscriptRef and every piece added to the browser buffer
\* comes from a text that is not blank, no existing entry is changed, and the
\* flush timer is armed only together with a growth of the buffer.
C27_BlankTextIgnored ==
    /\ [](\A speaker \in Roles, text \in ServerTexts :
              ~NotBlank(text)
                  => ~OnTranscriptAccepts(singleSpeakerMode, lastTranscriptRef, speaker, text))
    /\ [](\A text \in RecognizerTexts, isFinal \in BOOLEAN :
              ~NotBlank(text)
                  => BufferAfter(browserTranscriptRef, text, isFinal) = browserTranscriptRef)
    /\ [][transcript' # transcript
              => \/ transcript' = <<>>
                 \/ /\ Len(transcript') = Len(transcript) + 1
                    /\ SubSeq(transcript', 1, Len(transcript)) = transcript
                    /\ NotBlank(transcript'[Len(transcript')].text)]_vars
    /\ [][\A r \in Roles :
              lastTranscriptRef'[r] # lastTranscriptRef[r]
                  => /\ NotBlank(lastTranscriptRef'[r])
                     /\ Len(transcript') = Len(transcript) + 1]_vars
    /\ [][browserTranscriptRef' # browserTranscriptRef
              => \/ browserTranscriptRef' = <<>>
                 \/ /\ Len(browserTranscriptRef') > Len(browserTranscriptRef)
                    /\ SubSeq(browserTranscriptRef', 1, Len(browserTranscriptRef))
                           = browserTranscriptRef
                    /\ NotBlank(SubSeq(browserTranscriptRef', Len(browserTranscriptRef) + 1,
                                       Len(browserTranscriptRef')))]_vars
    /\ [][(browserFlushTimerRef' # browserFlushTimerRef /\ browserFlushTimerRef' # NoTimer)
              => Len(browserTranscriptRef') > Len(browserTranscriptRef)]_vars

\* A transcription message has just been delivered and nothing was ever
\* accepted, while the recognizer's buffer holds a phrase: with two speakers
\* and no remembered text, the message was blank.
C27_Witness ==
    /\ op = Op("onTranscript", "user")
    /\ ~singleSpeakerMode
    /\ transcript = <<>>
    /\ lastTranscriptRef = [r \in Roles |-> <<>>]
    /\ browserTranscriptRef = Phrase
    /\ browserFlushTimerRef # NoTimer

\* ------------------------------------------------------------------ C28
\* C28: a store action other than clearTranscript never shortens the
\* transcript, adds at most one entry at the end, and leaves every entry
\* before the last one as it was; the last entry is rewritten in place only
\* when it was a draft (its text replaced, or its draft flag cleared), or by
\* appendToLastMessage joining a text to a non-draft entry of the same channel.
C28_AppendOnlyButLast ==
    [][op'.name # "clearTranscript" =>
          LET n == Len(transcript)
          IN  /\ Len(transcript') \in {n, n + 1}
              /\ \A i \in 1..(n - 1) : transcript'[i] = transcript[i]
              /\ (n > 0 /\ transcript'[n] # transcript[n])
                     => /\ Len(transcript') = n
                        /\ transcript'[n].role = transcript[n].role
                        /\ \/ /\ transcript[n].isDraft
                              /\ \/ transcript'[n].isDraft
                                 \/ transcript'[n].text = transcript[n].text
                           \/ /\ ~transcript[n].isDraft
                              /\ ~transcript'[n].isDraft
                              /\ op' = Op("appendToLastMessage", transcript[n].role)
                              /\ \E x \in StoreTexts :
                                     transcript'[n].text
                                         = Trim(transcript[n].text \o <<" ">> \o x)]_vars

\* appendToLastMessage has just joined a text to the last of three entries,
\* behind a draft of the same channel that was left in place.
C28_Witness ==
    /\ op = Op("appendToLastMessage", "user")
    /\ Len(transcript) = 3
    /\ transcript[1] = Message("user", <<"a">>, TRUE)
    /\ transcript[2] = Message("other", <<"b">>, FALSE)
    /\ transcript[3] = Message("user", <<"a", " ", "b">>, FALSE)

\* ------------------------------------------------------------------ C29
\* C29: at no time are there two sockets that neither side has closed.
C29_AtMostOneOpenSocket == Cardinality(LiveSockets) <= 1

\* ------------------------------------------------------------------ C30
\* C30: no config message has gone out without a project_id.
C30_EveryConfigCarriesProjectId == \A i \in 1..Len(sockets) : sockets[i].bare = {}

WsMessage ==
    \E i \in 1..Len(sockets), speaker \in Roles, text \in {Phrase} :
        /\ sockets[i].state = "open"
        /\ op' = Op("wsMessage", RoleOf(speaker))
        /\ IF OnTranscriptAccepts(~closure[i].enableOther, lastTranscriptRef, speaker, text)
           THEN /\ Len(transcript) < HookMaxLen
                /\ lastTranscriptRef' =
                       [lastTranscriptRef EXCEPT ![RoleOf(speaker)] = Trim(text)]
                /\ transcript' = addMessage(transcript, RoleOf(speaker), text)
                /\ finalAt' = [finalAt EXCEPT ![RoleOf(speaker)] = now]
           ELSE UNCHANGED <<lastTranscriptRef, transcript, finalAt>>
        /\ UNCHANGED <<now, singleSpeakerMode, browserTranscriptRef, browserFlushTimerRef,
                       clientTranscripts, utt, echoSeen>>
        /\ HookFrame

\* A session under the single-speaker checkbox: what its sockets send and
\* deliver.
ChannelNext ==
    \/ SetSingleSpeakerMode
    \/ StartStreaming
    \/ CaptureSettles
    \/ WsOpen
    \/ WsMessage
    \/ DisplayFrame

ChannelSpec == Init /\ [][ChannelNext]_vars

\* Start, stop and the socket's events, with the messages the sockets deliver.
DeliveryNext ==
    \/ StartStreaming
    \/ CaptureSettles
    \/ WsOpen
    \/ WsClosed
    \/ WsDrop
    \/ WsMessage
    \/ StopStreaming
    \/ StopResumes

DeliverySpec == Init /\ [][DeliveryNext]_vars

\* ------------------------------------------------------------------ C32
\* C32: while the single-speaker checkbox is set, no config and no audio with
\* speaker other goes out on any socket and no entry of the other channel is
\* appended to the transcript.
C32_OtherChannelUnused ==
    [][(singleSpeakerMode /\ singleSpeakerMode')
          => /\ \A i \in 1..Len(sockets) :
                    /\ sockets'[i].sent["other"] = sockets[i].sent["other"]
                    /\ "other" \in sockets'[i].audio => "other" \in sockets[i].audio
             /\ Len(transcript') > Len(transcript)
                    => transcript'[Len(transcript')].role = "user"]_vars

\* ------------------------------------------------------------------ C33
\* The suggestion effect under the single-speaker checkbox.
ModeNext ==
    \/ SetSingleSpeakerMode
    \/ TranscriptAdd
    \/ TranscriptClear
    \/ DebounceFire
    \/ ResolveOk
    \/ SuggTick

ModeSpec == Init /\ [][ModeNext]_vars

\* C33: in single-speaker mode every new final entry of the user arms the
\* debounce timer for the transcript it completes, whatever the transcript
\* held before.
C33_UserEntryStartsDebounce ==
    [][(/\ singleSpeakerMode
        /\ Len(transcript') = Len(transcript) + 1
        /\ transcript'[Len(transcript')].role = "user")
          => /\ debounceRef' # NoTimer
             /\ debounceRef'.transcript = transcript'
             /\ debounceRef'.at = now
             /\ isLoadingSuggestions']_vars

\* ------------------------------------------------------------------ runtime config
\* api.ts ensureConfigLoaded.  A call is "idle" (not made), "fetching" (at
\* `await fetch`, the 5 s abort timer armed), "reading" (at `await r.json()`,
\* the timer cleared) or "returned".

\* The apiUrl values a config.json can hold: http or https, with or without a
\* trailing slash.
FetchedUrls == { [kind |-> "apiUrl", https |-> h, slash |-> sl] : h \in BOOLEAN, sl \in BOOLEAN }

\* j.apiUrl.replace(/\/$/, ""), then http:// -> https:// on an https page.
NormalizeUrl(u, secure) == [kind |-> "apiUrl", https |-> u.https \/ secure, slash |-> FALSE]

BootReturn(c, base) ==
    boot' = [boot EXCEPT !.calls[c] = "returned", !.loaded = TRUE, !.base = base]

\* ensureConfigLoaded() up to `await fetch(...)`.
EnsureConfigLoaded ==
    \E c \in BootCalls :
        /\ boot.calls[c] = "idle"
        /\ boot' = IF boot.loaded
                   THEN [boot EXCEPT !.calls[c] = "returned"]
                   ELSE [boot EXCEPT !.calls[c] = "fetching", !.fetches = @ + 1]
        /\ op' = Op("ensureConfigLoaded", "none")
        /\ UNCHANGED <<speech, offscreen>>
        /\ PlatFrame

\* The response's headers arrive: clearTimeout(t), then r.ok decides.
ConfigResponse ==
    \E c \in BootCalls, ok \in BOOLEAN :
        /\ boot.calls[c] = "fetching"
        /\ IF ok THEN boot' = [boot EXCEPT !.calls[c] = "reading"]
                 ELSE BootReturn(c, boot.base)
        /\ op' = Op("configResponse", IF ok THEN "ok" ELSE "notOk")
        /\ UNCHANGED <<speech, offscreen>>
        /\ PlatFrame

\* fetch rejects with a network error: the catch block.
ConfigFetchRejects ==
    \E c \in BootCalls :
        /\ boot.calls[c] = "fetching"
        /\ BootReturn(c, boot.base)
        /\ op' = Op("configFetchRejects", "none")
        /\ UNCHANGED <<speech, offscreen>>
        /\ PlatFrame

\* The 5 s timer fires while the fetch is pending: ctrl.abort(), the fetch
\* rejects with AbortError, the catch block.
ConfigTimeout ==
    \E c \in BootCalls :
        /\ boot.calls[c] = "fetching"
        /\ BootReturn(c, boot.base)
        /\ op' = Op("configTimeout", "none")
        /\ UNCHANGED <<speech, offscreen>>
        /\ PlatFrame

\* `await r.json()` settles: with an object that has an apiUrl, with one that
\* has none, or with a rejection (a body that is not JSON, a lost connection).
ConfigBody ==
    \E c \in BootCalls,
       body \in FetchedUrls \cup { [kind |-> k, https |-> FALSE, slash |-> FALSE] :
                                      k \in {"noApiUrl", "invalid"} } :
        /\ boot.calls[c] = "reading"
        /\ BootReturn(c, IF body \in FetchedUrls THEN NormalizeUrl(body, boot.secure)
                         ELSE boot.base)
        /\ op' = Op("configBody", body.kind)
        /\ UNCHANGED <<speech, offscreen>>
        /\ PlatFrame

BootInit ==
    /\ AppInit
    /\ SessionIdle
    /\ \E secure \in BOOLEAN : boot = BootFresh(secure)
    /\ speech = SpeechNew
    /\ offscreen = OffscreenIdle

BootNext ==
    \/ EnsureConfigLoaded
    \/ ConfigResponse
    \/ ConfigFetchRejects
    \/ ConfigTimeout
    \/ ConfigBody

\* A timer that was set and not cleared fires; what the network does is not
\* promised.
BootSpec == BootInit /\ [][BootNext]_vars /\ WF_vars(ConfigTimeout)

\* ------------------------------------------------------------------ C34
\* C34: every call of ensureConfigLoaded that was made returns.
C34_EveryCallReturns ==
    \A c \in BootCalls : (boot.calls[c] # "idle") ~> (boot.calls[c] = "returned")

\* ------------------------------------------------------------------ browser recognizer
\* speechRecognition.ts BrowserSpeechService, driven through its public
\* methods.  `recognition` is the engine: "idle", "active", or "stopping"
\* (stop() was called, the end event not yet dispatched).  `stopped` records
\* that the owner's last call was stop().

MaxLangTimers == 2
\* recognition.start() inside try/catch: it starts an idle engine and throws
\* (caught) on any other.
EngineStart(e) == IF e = "idle" THEN "active" ELSE e

\* The body of start(callbacks).
SpeechStarted(sp) ==
    [sp EXCEPT !.callbacks = TRUE, !.isListening = TRUE,
               !.recognition = EngineStart(sp.recognition)]

\* The body of stop().
SpeechStopped(sp) ==
    [sp EXCEPT !.isListening = FALSE, !.restartTimer = FALSE,
               !.recognition = IF sp.recognition = "active" THEN "stopping" ELSE @]

\* One step of the service.
SpeechStep(name, role) ==
    /\ op' = Op(name, role)
    /\ UNCHANGED <<boot, offscreen>>
    /\ PlatFrame

\* The owner calls start(callbacks).
SpeechStart ==
    /\ speech' = [SpeechStarted(speech) EXCEPT !.stopped = FALSE]
    /\ SpeechStep("speechStart", "none")

\* The owner calls stop().
SpeechStop ==
    /\ speech' = [SpeechStopped(speech) EXCEPT !.stopped = TRUE]
    /\ SpeechStep("speechStop", "none")

\* setLanguage(lang): while listening, stop() and a 200 ms timer that nothing
\* keeps or clears.
SpeechSetLanguage ==
    \E lang \in {"ru", "en"} :
        /\ speech.isListening => speech.langTimers < MaxLangTimers
        /\ speech' = IF speech.isListening
                     THEN [SpeechStopped(speech) EXCEPT !.lang = lang, !.langTimers = @ + 1]
                     ELSE [speech EXCEPT !.lang = lang]
        /\ SpeechStep("setLanguage", lang)

\* The 200 ms timer of setLanguage fires.
SpeechLangTimer ==
    /\ speech.langTimers > 0
    /\ speech' = IF speech.callbacks
                 THEN [SpeechStarted(speech) EXCEPT !.langTimers = @ - 1]
                 ELSE [speech EXCEPT !.langTimers = @ - 1]
    /\ SpeechStep("langTimer", "none")

\* recognition.onend: the engine ended, by stop() or by itself.
SpeechEnd ==
    /\ speech.recognition \in {"active", "stopping"}
    /\ speech' = [speech EXCEPT !.recognition = "idle",
                                !.restartTimer = IF speech.isListening THEN TRUE ELSE @]
    /\ SpeechStep("onend", "none")

\* The 100 ms restart timer of onend fires.
SpeechRestartTimer ==
    /\ speech.restartTimer
    /\ speech' = [speech EXCEPT !.restartTimer = FALSE,
                                !.recognition = EngineStart(speech.recognition)]
    /\ SpeechStep("restartTimer", "none")

\* recognition.onerror with "not-allowed".
SpeechNotAllowed ==
    /\ speech.recognition = "active"
    /\ speech.isListening
    /\ speech' = [speech EXCEPT !.isListening = FALSE]
    /\ SpeechStep("onerror", "none")

SpeechNext ==
    \/ SpeechStart
    \/ SpeechStop
    \/ SpeechSetLanguage
    \/ SpeechLangTimer
    \/ SpeechEnd
    \/ SpeechRestartTimer
    \/ SpeechNotAllowed

SpeechSpec == Init /\ [][SpeechNext]_vars

\* ------------------------------------------------------------------ C38
\* C38: once the owner has called stop() and has not called start() since,
\* the engine is never started again.
C38_NoRestartAfterStop ==
    [][(speech.stopped /\ speech'.stopped)
         => ~(speech.recognition # "active" /\ speech'.recognition = "active")]_vars

\* ------------------------------------------------------------------ extension capture
\* extension/background.js startCapture / stopCapture.  The globals
\* audioContext, processor and mediaStream hold the number of the start that
\* made the object (0: null).  `streams`, `contexts` and `processors` are the
\* objects that exist and run: streams with live tracks, open contexts,
\* connected processors.  `pending` counts the starts at `await
\* chrome.tabCapture.capture`, `closing` the stops at `await
\* audioContext.close()`; `last` is the last message received.

MaxOffscreenStarts == 3
MaxClosing == 2

\* audioContext, processor and mediaStream are null and no pipeline (a live
\* stream feeding a connected processor in an open context) delivers audio.
NoCaptureActive ==
    /\ offscreen.audioContext = 0
    /\ offscreen.processor = 0
    /\ offscreen.mediaStream = 0
    /\ offscreen.streams \cap offscreen.contexts \cap offscreen.processors = {}

OffscreenStep(name, role) ==
    /\ op' = Op(name, role)
    /\ UNCHANGED <<boot, speech>>
    /\ PlatFrame

\* mediaStream.getTracks().forEach(stop); mediaStream = null.
StreamReleased(o) ==
    [o EXCEPT !.streams = @ \ {o.mediaStream}, !.mediaStream = 0]

\* offscreenStart: startCapture() up to the awaited capture.
OffscreenStart ==
    /\ offscreen.begun < MaxOffscreenStarts
    /\ offscreen' = IF offscreen.audioContext # 0
                    THEN [offscreen EXCEPT !.last = "start"]
                    ELSE [offscreen EXCEPT !.last = "start", !.pending = @ + 1,
                                           !.begun = @ + 1]
    /\ OffscreenStep("offscreenStart", "none")

\* chrome.tabCapture.capture settles for one waiting start.
OffscreenCaptureSettles ==
    \E outcome \in {"stream", "null", "throws"} :
        /\ offscreen.pending > 0
        /\ LET n == offscreen.begun - offscreen.pending + 1
               o == [offscreen EXCEPT !.pending = @ - 1]
           IN  offscreen' =
                 CASE outcome = "stream" ->
                        [o EXCEPT !.mediaStream = n, !.audioContext = n, !.processor = n,
                                  !.streams = @ \cup {n}, !.contexts = @ \cup {n},
                                  !.processors = @ \cup {n}]
                   [] outcome = "null" -> [o EXCEPT !.mediaStream = 0]
                   [] OTHER -> o
        /\ OffscreenStep("captureSettles", outcome)

\* offscreenStop: stopCapture() up to the awaited close, or to its end when
\* there is no audioContext.
OffscreenStop ==
    /\ offscreen.audioContext # 0 => offscreen.closing < MaxClosing
    /\ LET o == [offscreen EXCEPT !.last = "stop", !.processor = 0,
                                  !.processors = @ \ {offscreen.processor}]
       IN  offscreen' =
             IF offscreen.audioContext # 0
             THEN [o EXCEPT !.closing = @ + 1, !.contexts = @ \ {offscreen.audioContext}]
             ELSE StreamReleased(o)
    /\ OffscreenStep("offscreenStop", "none")

\* audioContext.close() settles: the rest of stopCapture().
OffscreenCloseSettles ==
    /\ offscreen.closing > 0
    /\ offscreen' = StreamReleased([offscreen EXCEPT !.closing = @ - 1, !.audioContext = 0])
    /\ OffscreenStep("closeSettles", "none")

OffscreenNext ==
    \/ OffscreenStart
    \/ OffscreenCaptureSettles
    \/ OffscreenStop
    \/ OffscreenCloseSettles

\* The awaited browser calls settle.
OffscreenSpec ==
    /\ Init
    /\ [][OffscreenNext]_vars
    /\ WF_vars(OffscreenCaptureSettles)
    /\ WF_vars(OffscreenCloseSettles)

\* ------------------------------------------------------------------ C39
\* C39: when the last message was offscreenStop, eventually no capture is
\* active (or a new offscreenStart arrives).
C39_StopEndsCapture ==
    (offscreen.last = "stop") ~> (offscreen.last = "start" \/ NoCaptureActive)

\* ------------------------------------------------------------------ C35
\* C35: the close event of a socket that an earlier session disconnected
\* leaves isConnected of the session that is current as it was.
C35_StaleCloseKeepsFlag ==
    [][\A i \in 1..Len(sockets) :
         (/\ sockets[i].state = "closing"
          /\ sockets'[i].state = "closed"
          /\ wsRef # 0
          /\ wsRef # i)
           => isConnected' = isConnected]_vars

\* ------------------------------------------------------------------ C36
\* C36: a transcription message appends an entry only when the current
\* session's socket is open to deliver it; none is appended while wsRef is
\* null or holds a socket that is not open.
C36_NoEntryFromStaleSocket ==
    [][(op'.name = "wsMessage" /\ Len(transcript') > Len(transcript))
         => (wsRef # 0 /\ sockets[wsRef].state = "open")]_vars

\* ------------------------------------------------------------------ C37
\* C37: right after clearTranscript every non-empty transcription of a
\* channel in use would be accepted, whatever was accepted before the clear.
C37_FirstAfterClearAccepted ==
    op.name = "clearTranscript" =>
        \A speaker \in Roles, text \in ServerTexts :
            (Trim(text) # <<>> /\ ~(singleSpeakerMode /\ speaker = "other"))
                => OnTranscriptAccepts(singleSpeakerMode, lastTranscriptRef, speaker, text)

====
